---- MODULE Spec2Model ----
(***************************************************************************)
(* Image-Watermarker: the batch runner (WatermarkWorker.run), the          *)
(* watermark engine (ImageWatermarker) and the window (WatermarkApp) of    *)
(* both source variants:                                                   *)
(*   "base"  - src/Base.py (the single-file application)                   *)
(*   "logic" - src/logic/watermarkworker.py + src/logic/imagewatermarker.py*)
(*             driven by src/image_watermarker.py                          *)
(* Three specifications share the variables:                               *)
(*   Spec       - one run of a worker, for any job a caller can hand it    *)
(*   AppSpec    - the window: settings, watermark loading, starting runs   *)
(*   EngineSpec - one engine call, step by step, over a range of sizes     *)
(* Ratios are carried as integer percents (ratio = percent / 100).         *)
(* File names and message texts are sequences of one-character strings.    *)
(***************************************************************************)
EXTENDS Integers, Sequences, FiniteSets, TLC

VARIABLES
    variant,          \* which source variant runs: "base" or "logic"
    signal_emitter,   \* logic: self._signal_emitter is set (base: signals are class attributes)
    folder,           \* input directory as run finds it: "ok", "missing", "denied", "vanishes"
    listing,          \* what os.listdir(input_folder) returns (names, any order)
    folder_now,       \* names present in the input directory now
    same_folder,      \* output_folder is the input folder
    out_writable,     \* files can be written in the output folder
    watermark_type,   \* self.watermark_type
    size_ratio,       \* self.watermark_size_ratio / size_percent, in percent
    opacity_ratio,    \* self.watermark_opacity_ratio / opacity, in percent
    text_details,     \* self.text_details / text_watermark_details
    watermark_image,  \* ImageWatermarker.watermark_image
    is_running,       \* base: self._is_running
    pc,               \* position of run(): start, loop, apply, final, done, crashed
    image_files,      \* run's local image_files
    i,                \* run's loop index (0-based, as enumerate)
    processed_count,  \* run's local processed_count
    errors,           \* run's local errors
    events,           \* everything observable the run did, in order
    app,              \* WatermarkApp: the window's fields (AppSpec)
    eng               \* the locals of one engine call (EngineSpec)

vars == <<variant, signal_emitter, folder, listing, folder_now, same_folder,
          out_writable, watermark_type, size_ratio, opacity_ratio, text_details,
          watermark_image, is_running, pc, image_files, i, processed_count,
          errors, events, app, eng>>

(***************************************************************************)
(* Bounds of the model.                                                    *)
(***************************************************************************)
MaxFiles == 2

(***************************************************************************)
(* Strings.                                                                *)
(***************************************************************************)
UpperChars == <<"A","B","C","D","E","F","G","H","I","J","K","L","M",
                "N","O","P","Q","R","S","T","U","V","W","X","Y","Z">>
LowerChars == <<"a","b","c","d","e","f","g","h","i","j","k","l","m",
                "n","o","p","q","r","s","t","u","v","w","x","y","z">>

LowerMap ==
    [c \in { UpperChars[k] : k \in 1..Len(UpperChars) } |->
        LowerChars[CHOOSE k \in 1..Len(UpperChars) : UpperChars[k] = c]]

\* str.lower() on one character
LowerChar(c) == IF c \in DOMAIN LowerMap THEN LowerMap[c] ELSE c

\* str.lower()
Lower(s) == [k \in 1..Len(s) |-> LowerChar(s[k])]

\* str.endswith(suffix)
EndsWith(s, suffix) ==
    /\ Len(s) >= Len(suffix)
    /\ SubSeq(s, Len(s) - Len(suffix) + 1, Len(s)) = suffix

\* needle in haystack (contiguous)
Contains(haystack, needle) ==
    \E k \in 0..(Len(haystack) - Len(needle)) :
        SubSeq(haystack, k + 1, k + Len(needle)) = needle

WhiteSpace == {" ", "\t", "\n"}

RECURSIVE LStrip(_)
LStrip(s) == IF s # <<>> /\ Head(s) \in WhiteSpace THEN LStrip(Tail(s)) ELSE s

RECURSIVE RStrip(_)
RStrip(s) ==
    IF s # <<>> /\ s[Len(s)] \in WhiteSpace THEN RStrip(SubSeq(s, 1, Len(s) - 1)) ELSE s

\* str.strip()
Strip(s) == RStrip(LStrip(s))

DigitChars == <<"0","1","2","3","4","5","6","7","8","9">>

\* str(n) of a natural number, as an f-string renders it
RECURSIVE Str(_)
Str(n) ==
    IF n < 10 THEN <<DigitChars[n + 1]>>
    ELSE Str(n \div 10) \o <<DigitChars[(n % 10) + 1]>>

\* the extensions both workers accept
supported_formats ==
    { <<".","p","n","g">>, <<".","j","p","g">>, <<".","j","p","e","g">>,
      <<".","b","m","p">>, <<".","g","i","f">> }

\* f.lower().endswith(supported_formats)
IsSupported(name) ==
    LET lowered == Lower(name)
    IN  \E ext \in supported_formats : EndsWith(lowered, ext)

\* the list comprehension of run: keeps order, filters on the name alone
RECURSIVE FilterSupported(_)
FilterSupported(names) ==
    IF names = <<>> THEN <<>>
    ELSE IF IsSupported(Head(names))
         THEN <<Head(names)>> \o FilterSupported(Tail(names))
         ELSE FilterSupported(Tail(names))

(***************************************************************************)
(* The file system the run meets.  Each directory entry has a name, and    *)
(* what opening it as an image gives.                                      *)
(***************************************************************************)
Entry(name, isDir, decodable, mode, width, height) ==
    [name |-> name, isDir |-> isDir, decodable |-> decodable, mode |-> mode,
     width |-> width, height |-> height]

\* entries the input directory may hold when it is listed
Pool ==
    { Entry(<<"a",".","p","n","g">>, FALSE, TRUE,  "RGBA", 40, 30),
      Entry(<<"c",".","J","P","G">>, FALSE, TRUE,  "RGB",  30, 40),
      Entry(<<"d",".","b","m","p">>, FALSE, FALSE, "none", 0, 0),
      Entry(<<"b",".","t","x","t">>, FALSE, FALSE, "none", 0, 0),
      Entry(<<"s",".","g","i","f">>, TRUE,  FALSE, "none", 0, 0) }

\* entries that may appear in the input directory while a run is under way
LateFiles == { Entry(<<"z",".","p","n","g">>, FALSE, TRUE, "RGB", 20, 20) }

EntryOf(name) == CHOOSE e \in Pool \cup LateFiles : e.name = name

PoolNames == { e.name : e \in Pool }

\* sequences without repetition over S, of length at most n
RECURSIVE Arrangements(_, _)
Arrangements(S, n) ==
    IF n = 0 THEN { <<>> }
    ELSE { <<>> } \cup
         UNION { { <<x>> \o rest : rest \in Arrangements(S \ {x}, n - 1) } : x \in S }

Range(s) == { s[k] : k \in 1..Len(s) }

(***************************************************************************)
(* int() of the rational p / q (q > 0): truncation toward zero.            *)
(***************************************************************************)
TruncDiv(p, q) == IF p >= 0 THEN p \div q ELSE -((-p) \div q)

Min(a, b) == IF a <= b THEN a ELSE b
Max(a, b) == IF a >= b THEN a ELSE b

(***************************************************************************)
(* The watermark engine.                                                   *)
(***************************************************************************)
\* self.watermark_image: None, or the image convert("RGBA") returned
NoImage == [loaded |-> FALSE, width |-> 0, height |-> 0, mode |-> "none"]
Asset(w, h) == [loaded |-> TRUE, width |-> w, height |-> h, mode |-> "RGBA"]

\* text details: None, or a dict from keys to strings
NoDetails == [none |-> TRUE, items |-> <<>>]
Details(items) == [none |-> FALSE, items |-> items]

\* dict.get(key, '')
Get(d, key) == IF key \in DOMAIN d.items THEN d.items[key] ELSE <<>>

\* what one engine call did
Raised(exc, reason, opened) ==
    [raised |-> TRUE, exc |-> exc, reason |-> reason, opened |-> opened, wrote |-> FALSE]
Returned(wrote) ==
    [raised |-> FALSE, exc |-> "none", reason |-> <<>>, opened |-> TRUE, wrote |-> wrote]

\* the container format Image.save picks from the output name's extension
IsJpegName(name) ==
    LET lowered == Lower(name)
    IN  \/ EndsWith(lowered, <<".","j","p","g">>)
        \/ EndsWith(lowered, <<".","j","p","e","g">>)

\* Image.save(output_path) of an image of this mode succeeds
SaveOk(name, mode, writable) == writable /\ ~(IsJpegName(name) /\ mode = "RGBA")

\* Base.py: int(min_dim * watermark_size_percent), int(width / aspect)
BaseTargetWidth(f, size) == TruncDiv(Min(f.width, f.height) * size, 100)
BaseTargetHeight(f, size, wm) == TruncDiv(BaseTargetWidth(f, size) * wm.height, wm.width)

\* Image.resize refuses a size with a side that is not positive
ResizeOk(w, h) == w > 0 /\ h > 0

\* the mode Base.py converts the composite back to before saving
BaseOutputMode(mode) == IF mode \in {"L", "RGB"} THEN mode ELSE "RGBA"

\* logic: the composite of two RGBA images is saved as it is
LogicOutputMode(mode) == "RGBA"

\* the mode of the image handed to Image.save
OutputMode(v, mode) == IF v = "base" THEN BaseOutputMode(mode) ELSE LogicOutputMode(mode)

\* an engine that takes any ratio
AnyRatio(percent) == TRUE

\* Base.py lines 70-73: "0 <= ratio <= 1"
RatioOk(percent) == 0 <= percent /\ percent <= 100

\* Base.py ImageWatermarker.apply_watermark
ApplyWatermark(f, writable, kind, size, opacity, details, wm) ==
    IF ~RatioOk(size)
    THEN Raised("ValueError", <<"Watermark size percentage must be between 0 and 1.">>, FALSE)
    ELSE IF ~RatioOk(opacity)
    THEN Raised("ValueError", <<"Watermark opacity must be between 0 and 1.">>, FALSE)
    ELSE IF ~f.decodable
    THEN Raised("IOError", <<"Error processing image: cannot open">>, TRUE)
    ELSE IF kind = "image"
    THEN IF ~wm.loaded
         THEN Raised("IOError", <<"Error processing image: No image watermark loaded.">>, TRUE)
         ELSE IF ~ResizeOk(BaseTargetWidth(f, size), BaseTargetHeight(f, size, wm))
         THEN Raised("IOError", <<"Error processing image: height and width must be > 0">>, TRUE)
         ELSE IF ~SaveOk(f.name, BaseOutputMode(f.mode), writable)
         THEN Raised("IOError", <<"Error processing image: cannot save">>, TRUE)
         ELSE Returned(TRUE)
    ELSE IF kind = "text"
    THEN IF details.none \/ DOMAIN details.items = {}
         THEN Raised("IOError", <<"Error processing image: Text watermark details are missing.">>, TRUE)
         ELSE IF ~({"text", "font_path", "color_rgb"} \subseteq DOMAIN details.items)
         THEN Raised("IOError", <<"Error processing image: KeyError">>, TRUE)
         ELSE IF details.items["text"] = <<>>
         THEN IF SaveOk(f.name, f.mode, writable)
              THEN Returned(TRUE)
              ELSE Raised("IOError", <<"Error processing image: cannot save">>, TRUE)
         ELSE IF ~SaveOk(f.name, BaseOutputMode(f.mode), writable)
         THEN Raised("IOError", <<"Error processing image: cannot save">>, TRUE)
         ELSE Returned(TRUE)
    ELSE Raised("IOError", <<"Error processing image: Unknown watermark type">>, TRUE)

\* logic/imagewatermarker.py ImageWatermarker.apply_watermark_image
ApplyWatermarkImage(f, writable, size, opacity, wm) ==
    IF ~f.decodable
    THEN Raised("Exception", <<"Failed to apply image watermark: cannot open">>, TRUE)
    ELSE IF ~wm.loaded
    THEN Raised("Exception", <<"Failed to apply image watermark: Watermark image not loaded.">>, TRUE)
    ELSE IF ~SaveOk(f.name, LogicOutputMode(f.mode), writable)
    THEN Raised("Exception", <<"Failed to apply image watermark: cannot save">>, TRUE)
    ELSE Returned(TRUE)

\* logic/imagewatermarker.py ImageWatermarker.apply_watermark_text
ApplyWatermarkText(f, writable, details, size, opacity) ==
    IF ~f.decodable
    THEN Raised("Exception", <<"Failed to apply text watermark: cannot open">>, TRUE)
    ELSE IF details.none
    THEN Raised("Exception", <<"Failed to apply text watermark: no attribute get">>, TRUE)
    ELSE IF Strip(Get(details, "sender_text")) = <<>>
            /\ Strip(Get(details, "receiver_text")) = <<>>
    THEN Returned(FALSE)
    ELSE IF ~SaveOk(f.name, LogicOutputMode(f.mode), writable)
    THEN Raised("Exception", <<"Failed to apply text watermark: cannot save">>, TRUE)
    ELSE Returned(TRUE)

(***************************************************************************)
(* What a run does that can be observed from outside, in order.            *)
(***************************************************************************)
NoOutcome == [raised |-> FALSE, exc |-> "none", reason |-> <<>>, opened |-> FALSE, wrote |-> FALSE]

Ev(kind, file, text, p, t, errs, outcome) ==
    [ev |-> kind, file |-> file, text |-> text, processed |-> p, total |-> t,
     errors |-> errs, outcome |-> outcome]

\* the engine is entered for this file
CallEv(file) == Ev("call", file, <<>>, 0, 0, <<>>, NoOutcome)
\* the engine call is over (returned or raised)
EndEv(file, outcome) == Ev("end", file, <<>>, 0, 0, <<>>, outcome)
\* an output file was written at <output folder>/<file>
WriteEv(file) == Ev("write", file, <<>>, 0, 0, <<>>, NoOutcome)
\* update_progress.emit(text)
ProgressEv(text) == Ev("progress", <<>>, text, 0, 0, <<>>, NoOutcome)
\* job_finished.emit(processed, total, errors)
FinishedEv(p, t, errs) == Ev("finished", <<>>, <<>>, p, t, errs, NoOutcome)

\* the events of one engine call
EngineEvents(file, outcome) ==
    <<CallEv(file)>> \o (IF outcome.wrote THEN <<WriteEv(file)>> ELSE <<>>)
                     \o <<EndEv(file, outcome)>>

\* logic: every emit is guarded by "if self._signal_emitter:"
Emit(event) == IF signal_emitter THEN <<event>> ELSE <<>>

RECURSIVE SelectEv(_, _)
SelectEv(log, kind) ==
    IF log = <<>> THEN <<>>
    ELSE IF Head(log).ev = kind THEN <<Head(log)>> \o SelectEv(Tail(log), kind)
         ELSE SelectEv(Tail(log), kind)

(***************************************************************************)
(* Message texts.                                                          *)
(***************************************************************************)
\* logic: f"Processing {i+1}/{total_images}: {filename}"
LogicProgressText(k, total, filename) ==
    <<"Processing ">> \o Str(k) \o <<"/">> \o Str(total) \o <<":", " ">> \o filename

\* logic: f"Error on {filename}. Processed {i+1}/{total_images}."
LogicErrorProgressText(k, total, filename) ==
    <<"Error on ">> \o filename \o <<". Processed ">> \o Str(k) \o <<"/">> \o Str(total) \o <<".">>

\* logic: f"Error processing {filename}: {e}"
LogicErrorText(filename, reason) ==
    <<"Error processing ">> \o filename \o <<":", " ">> \o reason

\* base: f"Processing {filename} ({i+1}/{total_count})..."
BaseProgressText(k, total, filename) ==
    <<"Processing ">> \o filename \o <<" (">> \o Str(k) \o <<"/">> \o Str(total) \o <<")...">>

\* base: f"Failed to watermark {filename}: {e}"
BaseErrorText(filename, reason) ==
    <<"Failed to watermark ">> \o filename \o <<":", " ">> \o reason

NoFilesText == <<"No supported image files found in the input folder.">>

\* logic: the texts of the run-level errors
FolderErrorText(state) ==
    IF state = "missing" THEN <<"Input folder not found or is not a directory">>
    ELSE IF state = "vanishes" THEN <<"Input folder does not exist">>
    ELSE <<"Permission denied to access input folder">>

(***************************************************************************)
(* Job parameters the model draws from.                                    *)
(***************************************************************************)
Variants == {"base", "logic"}
FolderStates == {"ok", "missing", "denied", "vanishes"}
Kinds == {"image", "text", "other"}
SizePercents == {0, 50, 150}
OpacityPercents == {-10, 50}

\* the dict WatermarkApp._start_watermarking builds
AppDetails ==
    Details([text |-> <<"H","i">>, font_path |-> <<"A","r","i","a","l">>, color_rgb |-> <<"0">>])
\* the dict apply_watermark_text reads
SenderDetails == Details([sender_text |-> <<"A">>, receiver_text |-> <<>>])
\* both text lines blank
BlankDetails == Details([sender_text |-> <<" ">>, receiver_text |-> <<>>])

\* Base.py: a dict whose 'text' is the empty string
EmptyTextDetails ==
    Details([text |-> <<>>, font_path |-> <<"A","r","i","a","l">>, color_rgb |-> <<"0">>])

DetailsChoices == {NoDetails, AppDetails, SenderDetails, BlankDetails, EmptyTextDetails}

TheAsset == Asset(4, 2)

\* no window: the worker is driven by a caller of its own
NoApp ==
    [pc |-> "none", start_enabled |-> FALSE, selected_watermark_type |-> "image",
     watermark_image_path |-> <<>>, watermark_text |-> <<>>,
     watermark_size_value |-> 0, size_slider |-> 0,
     watermark_opacity_value |-> 0, opacity_slider |-> 0, config |-> <<>>,
     found |-> <<>>, loads |-> <<>>, in_flight |-> 0]

\* no engine call is being followed
NoEngine == [pc |-> "none", float_lut |-> "none", img_width |-> 0, img_height |-> 0,
             new_wm_width |-> 0, new_wm_height |-> 0, alpha |-> <<>>, paste_x |-> 0,
             paste_y |-> 0, x_spacing |-> 0, y_spacing |-> 0, tiles_x |-> <<>>,
             tiles_y |-> <<>>, font_size |-> 0, opacity |-> 0,
             family_found |-> FALSE, arial_found |-> FALSE, font |-> "none",
             outline_enabled |-> FALSE, repetition_enabled |-> FALSE, boxes |-> <<>>,
             horizontal_spacing |-> 0, vertical_spacing |-> 0, num_repeats_x |-> 0,
             num_repeats_y |-> 0, start_x2 |-> 0, start_y2 |-> 0,
             outline_thickness |-> 0, drawn |-> 0, draws |-> <<>>]

Init ==
    /\ variant \in Variants
    /\ signal_emitter \in (IF variant = "base" THEN {TRUE} ELSE BOOLEAN)
    /\ folder \in FolderStates
    /\ listing \in (IF folder = "ok" THEN Arrangements(PoolNames, MaxFiles) ELSE { <<>> })
    /\ folder_now = Range(listing)
    /\ same_folder \in BOOLEAN
    /\ out_writable \in BOOLEAN
    /\ watermark_type \in Kinds
    /\ size_ratio \in SizePercents
    /\ opacity_ratio \in OpacityPercents
    /\ text_details \in (IF watermark_type = "text" THEN DetailsChoices ELSE {NoDetails})
    /\ watermark_image \in (IF watermark_type = "image" THEN {NoImage, TheAsset} ELSE {NoImage})
    /\ is_running = TRUE
    /\ pc = "start"
    /\ image_files = <<>>
    /\ i = 0
    /\ processed_count = 0
    /\ errors = <<>>
    /\ events = <<>>
    /\ app = NoApp
    /\ eng = NoEngine

env == <<variant, signal_emitter, folder, listing, same_folder, out_writable,
         watermark_type, size_ratio, opacity_ratio, text_details, watermark_image,
         app, eng>>

\* an output written into the input folder is an entry of that folder
AfterWrite(outcome, filename) ==
    IF outcome.wrote /\ same_folder THEN folder_now \cup {filename} ELSE folder_now

(***************************************************************************)
(* logic/watermarkworker.py WatermarkWorker.run                            *)
(***************************************************************************)
\* lines 37-75: the directory check, the listing, the filter, the empty case
LogicScan ==
    /\ variant = "logic"
    /\ pc = "start"
    /\ processed_count' = 0
    /\ i' = 0
    /\ IF folder # "ok"
       THEN /\ errors' = <<FolderErrorText(folder)>>
            /\ image_files' = <<>>
            /\ events' = events \o Emit(FinishedEv(0, 0, errors'))
            /\ pc' = "done"
       ELSE /\ image_files' = FilterSupported(listing)
            /\ errors' = <<>>
            /\ IF Len(image_files') = 0
               THEN /\ events' = events \o Emit(FinishedEv(0, 0, <<NoFilesText>>))
                    /\ pc' = "done"
               ELSE /\ events' = events
                    /\ pc' = "loop"
    /\ UNCHANGED <<env, folder_now, is_running>>

\* a failure that ends the batch: the loop is left at the first raising call
AbortIndex(idx, outcome) == IF outcome.raised THEN Len(image_files) ELSE idx + 1

\* a failure that is retried: the loop stays on a file whose call raised
RetryIndex(idx, outcome) == IF outcome.raised THEN idx ELSE idx + 1

\* "for i, filename in enumerate(image_files)": the loop moves to the next file
\* whatever the body did
NextIndex(idx, outcome) == idx + 1

\* the engine call the loop body makes for this watermark type, if any
LogicEngineCall(f) ==
    IF watermark_type = "image"
    THEN ApplyWatermarkImage(f, out_writable, size_ratio, opacity_ratio, watermark_image)
    ELSE ApplyWatermarkText(f, out_writable, text_details, size_ratio, opacity_ratio)

\* lines 77-100: one iteration of the loop
LogicApply ==
    /\ variant = "logic"
    /\ pc = "loop"
    /\ i < Len(image_files)
    /\ LET filename == image_files[i + 1]
           total == Len(image_files)
           called == watermark_type \in {"image", "text"}
           outcome == IF called THEN LogicEngineCall(EntryOf(filename)) ELSE Returned(FALSE)
           calls == IF called THEN EngineEvents(filename, outcome) ELSE <<>>
       IN  /\ IF outcome.raised
              THEN /\ errors' = Append(errors, LogicErrorText(filename, outcome.reason))
                   /\ processed_count' = processed_count
                   /\ events' = events \o calls \o
                          Emit(ProgressEv(LogicErrorProgressText(i + 1, total, filename)))
              ELSE /\ errors' = errors
                   /\ processed_count' = processed_count + 1
                   /\ events' = events \o calls \o
                          Emit(ProgressEv(LogicProgressText(i + 1, total, filename)))
           /\ folder_now' = AfterWrite(outcome, filename)
           /\ i' = NextIndex(i, outcome)
    /\ UNCHANGED <<env, is_running, pc, image_files>>

\* lines 102-103: the final emit
LogicFinish ==
    /\ variant = "logic"
    /\ pc = "loop"
    /\ i = Len(image_files)
    /\ events' = events \o Emit(FinishedEv(processed_count, Len(image_files), errors))
    /\ pc' = "done"
    /\ UNCHANGED <<env, folder_now, is_running, image_files, i, processed_count, errors>>

(***************************************************************************)
(* Base.py WatermarkWorker.run and stop                                    *)
(***************************************************************************)
\* lines 217-226: os.listdir (uncaught when it raises), the filter, the empty case
BaseScan ==
    /\ variant = "base"
    /\ pc = "start"
    /\ processed_count' = 0
    /\ errors' = <<>>
    /\ i' = 0
    /\ IF folder # "ok"
       THEN /\ image_files' = <<>>
            /\ events' = events
            /\ pc' = "crashed"
       ELSE /\ image_files' = FilterSupported(listing)
            /\ IF Len(image_files') = 0
               THEN /\ events' = events \o <<ProgressEv(NoFilesText), FinishedEv(0, 0, <<>>)>>
                    /\ pc' = "done"
               ELSE /\ events' = events
                    /\ pc' = "loop"
    /\ UNCHANGED <<env, folder_now, is_running>>

\* a loop that never looks at the stop flag
NeverBreak(running) == FALSE

\* "if not self._is_running: break"
ShouldBreak(running) == ~running

\* lines 228-235: the head of one iteration: the stop flag, then the progress emit
BaseIterate ==
    /\ variant = "base"
    /\ pc = "loop"
    /\ i < Len(image_files)
    /\ IF ShouldBreak(is_running)
       THEN /\ pc' = "final"
            /\ events' = events
       ELSE /\ pc' = "apply"
            /\ events' = Append(events,
                   ProgressEv(BaseProgressText(i + 1, Len(image_files), image_files[i + 1])))
    /\ UNCHANGED <<env, folder_now, is_running, image_files, i, processed_count, errors>>

\* lines 237-248: the engine call of one iteration and its bookkeeping
BaseApply ==
    /\ variant = "base"
    /\ pc = "apply"
    /\ LET filename == image_files[i + 1]
           outcome == ApplyWatermark(EntryOf(filename), out_writable, watermark_type,
                                     size_ratio, opacity_ratio, text_details, watermark_image)
       IN  /\ IF outcome.raised
              THEN /\ errors' = Append(errors, BaseErrorText(filename, outcome.reason))
                   /\ processed_count' = processed_count
              ELSE /\ errors' = errors
                   /\ processed_count' = processed_count + 1
           /\ events' = events \o EngineEvents(filename, outcome)
           /\ folder_now' = AfterWrite(outcome, filename)
           /\ i' = NextIndex(i, outcome)
    /\ pc' = "loop"
    /\ UNCHANGED <<env, is_running, image_files>>

\* line 250: the final emit, after the loop ended or broke
BaseFinish ==
    /\ variant = "base"
    /\ \/ pc = "final"
       \/ pc = "loop" /\ i = Len(image_files)
    /\ events' = Append(events, FinishedEv(processed_count, Len(image_files), errors))
    /\ pc' = "done"
    /\ UNCHANGED <<env, folder_now, is_running, image_files, i, processed_count, errors>>

\* lines 252-254: stop(), called from another thread
Stop ==
    /\ variant = "base"
    /\ pc \notin {"done", "crashed"}
    /\ is_running
    /\ is_running' = FALSE
    /\ UNCHANGED <<env, folder_now, pc, image_files, i, processed_count, errors, events>>

(***************************************************************************)
(* The environment: a file appears in the input folder during a run.       *)
(***************************************************************************)
FileAppears ==
    /\ folder = "ok"
    /\ pc \in {"loop", "apply", "final"}
    /\ \E e \in LateFiles :
          /\ e.name \notin folder_now
          /\ folder_now' = folder_now \cup {e.name}
    /\ UNCHANGED <<env, is_running, pc, image_files, i, processed_count, errors, events>>

Next ==
    \/ LogicScan
    \/ LogicApply
    \/ LogicFinish
    \/ BaseScan
    \/ BaseIterate
    \/ BaseApply
    \/ BaseFinish
    \/ Stop
    \/ FileAppears

Spec == Init /\ [][Next]_vars

(***************************************************************************)
(* Views of the event log used by the properties.                          *)
(***************************************************************************)
Calls == SelectEv(events, "call")
Ends == SelectEv(events, "end")
Writes == SelectEv(events, "write")
Progresses == SelectEv(events, "progress")
Finisheds == SelectEv(events, "finished")

RECURSIVE RaisedFiles(_)
RaisedFiles(ends) ==
    IF ends = <<>> THEN <<>>
    ELSE (IF Head(ends).outcome.raised THEN <<Head(ends).file>> ELSE <<>>)
         \o RaisedFiles(Tail(ends))


\* the run is over: it returned, or its thread died of an uncaught exception
Terminated == pc \in {"done", "crashed"}

\* the job is one the data model allows: an image or a text watermark
KnownKind == watermark_type \in {"image", "text"}

\* the names of the listing with a supported extension, compared without case
SupportedNames == { n \in Range(listing) : IsSupported(n) }

(***************************************************************************)
(* The window: WatermarkApp (src/image_watermarker.py; Base.py holds the   *)
(* same class).  The window runs in the main thread, the worker's run in a *)
(* thread of its own.                                                      *)
(***************************************************************************)
MaxLoads == 2

\* self.watermark_size_value = 15, self.watermark_opacity_value = 50
DefaultSize == 15
DefaultOpacity == 50
\* size_slider.setRange(5, 100), opacity_slider.setRange(20, 100)
SizeSliderMin == 5
SizeSliderMax == 100
OpacitySliderMin == 20
OpacitySliderMax == 100

\* the files a watermark path can name; any other path does not exist
WatermarkPool ==
    { Entry(<<"w","m",".","p","n","g">>, FALSE, TRUE, "RGBA", 4, 2),
      Entry(<<"l","o","g","o",".","j","p","g">>, FALSE, TRUE, "RGB", 2, 4),
      Entry(<<"b","a","d",".","p","n","g">>, FALSE, FALSE, "none", 0, 0) }
MissingPath == <<"g","o","n","e",".","p","n","g">>
WatermarkPaths == { e.name : e \in WatermarkPool } \cup {MissingPath}
WatermarkAt(path) == CHOOSE e \in WatermarkPool : e.name = path

\* os.path.exists(path)
Exists(path) == \E e \in WatermarkPool : e.name = path

\* Image.open(path).convert("RGBA") returns an image
Loadable(path) == Exists(path) /\ WatermarkAt(path).decodable

\* the exception load_watermark_image raises for this path, "none" if it returns
LoadRaises(v, path) ==
    IF Loadable(path) THEN "none"
    ELSE IF v = "base" /\ ~Exists(path) THEN "FileNotFoundError"
    ELSE "IOError"

\* a load that forgets the asset it had when the new path cannot be loaded
ClearingLoad(path, current) ==
    IF Loadable(path)
    THEN Asset(WatermarkAt(path).width, WatermarkAt(path).height)
    ELSE NoImage

\* load_watermark_image: self.watermark_image after the call; the assignment is
\* the last thing the try block does
LoadWatermarkImage(path, current) ==
    IF Loadable(path)
    THEN Asset(WatermarkAt(path).width, WatermarkAt(path).height)
    ELSE current

\* the characters of a watermark kind
KindChars(kind) == IF kind = "image" THEN <<"i","m","a","g","e">> ELSE <<"t","e","x","t">>

\* one line "key=value" of watermarker_config.txt
ConfigLine(key, value) == [key |-> key, value |-> value]

\* _save_settings: the lines of the file it writes for the kind, the watermark
\* path, the text of the entry, the size and the opacity
SavedConfig(a) ==
    << ConfigLine("selected_watermark_type", KindChars(a.selected_watermark_type)),
       ConfigLine("watermark_image", a.watermark_image_path),
       ConfigLine("watermark_text", a.watermark_text),
       ConfigLine("watermark_size", Str(a.watermark_size_value)),
       ConfigLine("watermark_opacity", Str(a.watermark_opacity_value)) >>

\* _save_settings
Saved(a) == [a EXCEPT !.config = SavedConfig(a)]

\* float(value) takes the string: here, a string of digits
IsNumber(value) == value # <<>> /\ \A k \in 1..Len(value) : value[k] \in Range(DigitChars)

\* int(float(value)) of a string of digits
RECURSIVE ParseNumber(_)
ParseNumber(value) ==
    IF value = <<>> THEN 0
    ELSE LET last == value[Len(value)]
             digit == CHOOSE d \in 0..9 : DigitChars[d + 1] = last
         IN  10 * ParseNumber(SubSeq(value, 1, Len(value) - 1)) + digit

\* lines 410-412: line.strip() and split("=", 1): the value as it is read
ReadValue(line) == RStrip(line.value)

\* QSlider.setValue keeps the value inside the slider's range
Bound(v, lo, hi) == Max(lo, Min(hi, v))

\* lines 446-449: the value is stored, the slider is moved (its valueChanged
\* signal, if the slider's value changed, runs _update_size_label with the
\* bounded value), and _update_size_label is called with the stored value
ReadSize(a, v) ==
    LET moved == Bound(v, SizeSliderMin, SizeSliderMax)
    IN  Saved([a EXCEPT !.size_slider = moved,
                        !.watermark_size_value = IF moved # a.size_slider THEN moved ELSE v])

\* lines 450-453: the same for the opacity
ReadOpacity(a, v) ==
    LET moved == Bound(v, OpacitySliderMin, OpacitySliderMax)
    IN  Saved([a EXCEPT !.opacity_slider = moved,
                        !.watermark_opacity_value = IF moved # a.opacity_slider THEN moved ELSE v])

\* lines 419-424: the radio button of the kind is checked; when that changes
\* the buttons, _toggle_watermark_type runs and saves
ReadKind(a, value) ==
    LET kind == IF value = KindChars("image") THEN "image" ELSE "text"
    IN  IF kind = a.selected_watermark_type
        THEN a
        ELSE Saved([a EXCEPT !.selected_watermark_type = kind])

\* lines 434-436: the entry gets the text; when that changes it, textChanged
\* runs _save_settings
ReadText(a, value) ==
    IF value = a.watermark_text THEN a ELSE Saved([a EXCEPT !.watermark_text = value])

\* lines 408-453: one line of the file.  st holds the window (a), the asset
\* (wm), the variant (v) and whether the loop was left by an exception
ReadLine(line, st) ==
    LET value == ReadValue(line)
    IN  IF line.key = "selected_watermark_type"
        THEN [st EXCEPT !.a = ReadKind(st.a, value)]
        ELSE IF line.key = "watermark_image"
        THEN IF Exists(value)
             THEN [st EXCEPT !.a = [st.a EXCEPT
                                       !.watermark_image_path = value,
                                       !.loads = Append(@, [path |-> value,
                                                            exc |-> LoadRaises(st.v, value)])],
                             !.wm = LoadWatermarkImage(value, st.wm)]
             ELSE [st EXCEPT !.a = [st.a EXCEPT !.watermark_image_path = value]]
        ELSE IF line.key = "watermark_text"
        THEN [st EXCEPT !.a = ReadText(st.a, value)]
        ELSE IF ~IsNumber(value)
        THEN [st EXCEPT !.raised = TRUE]
        ELSE IF line.key = "watermark_size"
        THEN [st EXCEPT !.a = ReadSize(st.a, ParseNumber(value))]
        ELSE [st EXCEPT !.a = ReadOpacity(st.a, ParseNumber(value))]

\* lines 408-459: the loop over the lines, then _toggle_watermark_type (which
\* saves) unless a line raised
RECURSIVE ReadSettings(_, _)
ReadSettings(lines, st) ==
    IF st.raised THEN st
    ELSE IF lines = <<>> THEN [st EXCEPT !.a = Saved(st.a)]
    ELSE ReadSettings(Tail(lines), ReadLine(Head(lines), st))

\* a window whose widgets are created without a signal being handled
WidgetsNotSaved(a) == [a EXCEPT !.pc = "widgets"]

\* _create_widgets: the widgets get the defaults of __init__; the signals are
\* connected (lines 98-99) before line 216 checks the radio button of the
\* default kind, so toggled runs _toggle_watermark_type, which saves
WidgetsCreated(a) == Saved([a EXCEPT !.pc = "widgets"])

\* the settings a window had when its session ended
Session(kind, path, text, size, opacity) ==
    [selected_watermark_type |-> kind, watermark_image_path |-> path,
     watermark_text |-> text, watermark_size_value |-> size,
     watermark_opacity_value |-> opacity]

\* watermarker_config.txt as the process finds it: absent, written by the
\* session before, or edited by hand
SessionFile ==
    SavedConfig(Session("text", <<"w","m",".","p","n","g">>, <<"H","i">>, 80, 30))
EditedFile ==
    << ConfigLine("watermark_size", <<"1","0","0">>),
       ConfigLine("watermark_size", <<"5","0","0">>),
       ConfigLine("watermark_opacity", <<"0">>) >>
FoundFiles == { <<>>, SessionFile, EditedFile }

\* the values the user moves the size slider to, and the texts the user
\* types; the opacity slider is left where the settings put it
SizeChoices == {SizeSliderMax}
TextChoices == { <<"H","i">> }

\* the files of the input folder the window's runs work on
AppFolderNames == { <<"a",".","p","n","g">>, <<"d",".","b","m","p">> }

\* __init__ before _create_widgets (lines 22-52), and the configuration file
\* the process finds
AppInit ==
    /\ variant \in Variants
    /\ signal_emitter = (variant = "base")
    /\ folder = "ok"
    /\ listing = <<>>
    /\ folder_now = {}
    /\ same_folder = FALSE
    /\ out_writable = TRUE
    /\ watermark_type = "image"
    /\ size_ratio = 0
    /\ opacity_ratio = 0
    /\ text_details = NoDetails
    /\ watermark_image = NoImage
    /\ is_running = TRUE
    /\ pc = "none"
    /\ image_files = <<>>
    /\ i = 0
    /\ processed_count = 0
    /\ errors = <<>>
    /\ events = <<>>
    /\ \E lines \in FoundFiles :
          app = [pc |-> "created", start_enabled |-> TRUE,
                 selected_watermark_type |-> "image", watermark_image_path |-> <<>>,
                 watermark_text |-> <<>>,
                 watermark_size_value |-> DefaultSize, size_slider |-> DefaultSize,
                 watermark_opacity_value |-> DefaultOpacity,
                 opacity_slider |-> DefaultOpacity,
                 config |-> lines, found |-> lines, loads |-> <<>>, in_flight |-> 0]
    /\ eng = NoEngine

worker == <<folder, listing, folder_now, same_folder, out_writable, watermark_type,
            size_ratio, opacity_ratio, text_details, is_running, pc, image_files, i,
            processed_count, errors, events>>

\* __init__ line 55: _create_widgets()
CreateWidgets ==
    /\ app.pc = "created"
    /\ app' = WidgetsCreated(app)
    /\ UNCHANGED <<variant, signal_emitter, worker, watermark_image, eng>>

\* __init__ line 56: _load_last_settings()
LoadLastSettings ==
    /\ app.pc = "widgets"
    /\ LET read == ReadSettings(app.config,
                                [a |-> app, wm |-> watermark_image, v |-> variant,
                                 raised |-> FALSE])
       IN  /\ app' = [read.a EXCEPT !.pc = "loaded"]
           /\ watermark_image' = read.wm
    /\ UNCHANGED <<variant, signal_emitter, worker, eng>>

\* the main block: window.show() and the event loop
Show ==
    /\ app.pc = "loaded"
    /\ app' = [app EXCEPT !.pc = "idle"]
    /\ UNCHANGED <<variant, signal_emitter, worker, watermark_image, eng>>

\* the window is shown and has not died
Alive == app.pc \in {"idle", "running"}

\* _toggle_watermark_type: the other radio button is checked
ToggleWatermarkType ==
    /\ Alive
    /\ app' = Saved([app EXCEPT !.selected_watermark_type =
                                    IF @ = "image" THEN "text" ELSE "image"])
    /\ UNCHANGED <<variant, signal_emitter, worker, watermark_image, eng>>

\* _update_size_label, run by valueChanged: the size slider was moved
UpdateSizeLabel ==
    /\ Alive
    /\ \E value \in SizeChoices \ {app.size_slider} :
          app' = Saved([app EXCEPT !.size_slider = value, !.watermark_size_value = value])
    /\ UNCHANGED <<variant, signal_emitter, worker, watermark_image, eng>>

\* textChanged of the text entry runs _save_settings: the text was edited.
\* The entry is on the page of the stack that is shown for a text watermark
TextChanged ==
    /\ Alive
    /\ app.selected_watermark_type = "text"
    /\ \E text \in TextChoices \ {app.watermark_text} :
          app' = Saved([app EXCEPT !.watermark_text = text])
    /\ UNCHANGED <<variant, signal_emitter, worker, watermark_image, eng>>

\* _browse_watermark_image: a file was chosen in the dialog.  The Browse
\* button is on the page of the stack that is shown for an image watermark
BrowseWatermarkImage ==
    /\ Alive
    /\ app.selected_watermark_type = "image"
    /\ Len(app.loads) < MaxLoads
    /\ \E path \in WatermarkPaths :
          LET exc == LoadRaises(variant, path)
              browsed == [app EXCEPT !.watermark_image_path = path,
                                     !.loads = Append(@, [path |-> path, exc |-> exc])]
          IN  /\ watermark_image' = LoadWatermarkImage(path, watermark_image)
              /\ app' = IF exc = "none" THEN Saved(browsed) ELSE browsed
    /\ UNCHANGED <<variant, signal_emitter, worker, eng>>

\* a Start button that stays enabled while the worker runs
ButtonLeftEnabled == TRUE

\* line 339: self.start_button.setEnabled(False)
ButtonWhileRunning == FALSE

\* _start_watermarking, when its checks pass (the click needs the button to
\* be enabled): the worker is built from the window's fields; Base.py's worker
\* has the signals that are connected and its thread starts, the logic worker
\* has no update_progress attribute and the handler raises AttributeError with
\* the Start button disabled.  Nothing compares the two folders, and a folder
\* that is a directory may still refuse to be listed
StartWatermarking ==
    /\ Alive
    /\ app.start_enabled
    /\ app.selected_watermark_type = "image" =>
          Exists(app.watermark_image_path) /\ watermark_image.loaded
    /\ app.selected_watermark_type = "text" => Strip(app.watermark_text) # <<>>
    /\ \E names \in Arrangements(AppFolderNames, MaxFiles) :
          /\ listing' = names
          /\ folder_now' = Range(names)
    /\ folder' \in {"ok", "denied"}
    /\ same_folder' \in BOOLEAN
    /\ out_writable' = TRUE
    /\ watermark_type' = app.selected_watermark_type
    /\ size_ratio' = app.watermark_size_value
    /\ opacity_ratio' = app.watermark_opacity_value
    /\ text_details' = IF app.selected_watermark_type = "text"
                       THEN Details([text |-> app.watermark_text,
                                     font_path |-> <<"A","r","i","a","l">>,
                                     color_rgb |-> <<"0">>])
                       ELSE NoDetails
    /\ is_running' = TRUE
    /\ image_files' = <<>>
    /\ i' = 0
    /\ processed_count' = 0
    /\ errors' = <<>>
    /\ events' = <<>>
    /\ IF variant = "base"
       THEN /\ pc' = "start"
            /\ app' = [app EXCEPT !.pc = "running", !.start_enabled = ButtonWhileRunning,
                                  !.in_flight = @ + 1]
       ELSE /\ pc' = "none"
            /\ app' = [app EXCEPT !.pc = "aborted", !.start_enabled = ButtonWhileRunning]
    /\ UNCHANGED <<variant, signal_emitter, watermark_image, eng>>

\* _job_done: the slot job_finished is connected to, run by the main thread
JobDone ==
    /\ app.pc = "running"
    /\ pc = "done"
    /\ Finisheds # <<>>
    /\ app' = Saved([app EXCEPT !.pc = "idle", !.start_enabled = TRUE,
                                !.in_flight = @ - 1])
    /\ UNCHANGED <<variant, signal_emitter, worker, watermark_image, eng>>

AppNext ==
    \/ CreateWidgets
    \/ LoadLastSettings
    \/ Show
    \/ ToggleWatermarkType
    \/ UpdateSizeLabel
    \/ TextChanged
    \/ BrowseWatermarkImage
    \/ StartWatermarking
    \/ BaseScan
    \/ BaseIterate
    \/ BaseApply
    \/ BaseFinish
    \/ JobDone

AppSpec == AppInit /\ [][AppNext]_vars

(***************************************************************************)
(* One engine call, step by step: apply_watermark_image and the head of    *)
(* apply_watermark_text (logic), apply_watermark (Base.py), after the      *)
(* input was opened.  The job is in watermark_type, size_ratio,            *)
(* opacity_ratio and watermark_image; eng holds the call's locals.         *)
(***************************************************************************)
padding == 20

\* round() of the rational p / q (p >= 0, q > 0): to nearest, a half to even
Round(p, q) ==
    LET below == p \div q
        rest == p % q
    IN  IF 2 * rest < q THEN below
        ELSE IF 2 * rest > q THEN below + 1
        ELSE IF below % 2 = 0 THEN below ELSE below + 1

\* logic lines 217-231: target_wm_size, the side that gets it, the other side
\* in proportion, and "max(1, ...)" on both
LogicFootprint(W, H, w, h, size) ==
    LET target_wm_size == TruncDiv(Min(W, H) * size, 100)
        new_wm_width == IF w > h THEN target_wm_size ELSE TruncDiv(w * target_wm_size, h)
        new_wm_height == IF w > h THEN TruncDiv(h * target_wm_size, w) ELSE target_wm_size
    IN  <<Max(1, new_wm_width), Max(1, new_wm_height)>>

\* Base.py lines 93-95: the width gets the target, the height follows
BaseFootprint(W, H, w, h, size) ==
    LET base == [width |-> W, height |-> H]
        wm == [width |-> w, height |-> h]
    IN  <<BaseTargetWidth(base, size), BaseTargetHeight(base, size, wm)>>

\* an opacity that is applied as a transparency
ScaleByTransparency(build, x, opacity) == TruncDiv(x * (100 - opacity), 100)

\* logic line 234: Image.eval(alpha, lambda x: x * opacity_ratio); the table of
\* floats becomes a table of bytes by rounding or by truncation, as the
\* imaging library of the build does it
ScaleAlpha(build, x, opacity) ==
    IF build = "round" THEN Round(x * opacity, 100) ELSE TruncDiv(x * opacity, 100)

\* Base.py line 103: Image.eval(alpha, lambda x: int(x * watermark_opacity))
BaseScaleAlpha(x, opacity) == TruncDiv(x * opacity, 100)

\* logic line 88: int(255 * opacity_ratio); Base.py line 147
TextOpacity(opacity) == TruncDiv(255 * opacity, 100)

\* logic lines 69-71: int(img_height * size_ratio * 0.1), at least 10
LogicFontSize(H, size) == Max(10, TruncDiv(H * size, 1000))

\* Base.py lines 123-124: int(min_dim * size * 0.8), at least 1
BaseFontSize(W, H, size) == Max(1, TruncDiv(Min(W, H) * size * 8, 1000))

\* a paste position that is not held inside the image
UnclampedPaste(side, wm_side) == side - wm_side - padding

\* logic lines 236-241: the paste position along one axis
PasteCoord(side, wm_side) == Max(0, side - wm_side - padding)

\* a tiling step that is not repaired when it is 0
SpacingAsComputed(wm_side) == TruncDiv(wm_side * 12, 10)

\* Base.py lines 162-167: the tiling step along one axis
Spacing(wm_side) ==
    IF TruncDiv(wm_side * 12, 10) = 0 THEN wm_side + 10 ELSE TruncDiv(wm_side * 12, 10)

\* range(start, stop, step) for a step above 0 (range refuses a step of 0)
PyRange(start, stop, step) ==
    IF step <= 0 \/ stop <= start
    THEN <<>>
    ELSE [k \in 1..((stop - start + step - 1) \div step) |-> start + (k - 1) * step]

\* a lookup that gives up when the requested family cannot be loaded
NoFallback(family_found, arial_found) ==
    IF family_found THEN "requested" ELSE "raised"

\* logic lines 72-80, Base.py lines 126-133: the requested family, else
\* arial.ttf, else the built-in font; a truetype call that cannot load its
\* font raises IOError
FontLookup(family_found, arial_found) ==
    IF family_found THEN "requested"
    ELSE IF arial_found THEN "arial"
    ELSE "default"

\* logic lines 91-96: the lines that are not blank
NotBlank(t) == Strip(t) # <<>>
TextLines(details) ==
    SelectSeq(<<Get(details, "sender_text"), Get(details, "receiver_text")>>, NotBlank)

\* logic lines 130, 170, 184: max(1, int(base_font_pixel_size * 0.05))
OutlineThickness(font_size) == Max(1, TruncDiv(font_size * 5, 100))

\* a count of repeats without the two extra instances
RepeatsInside(side, spacing) == TruncDiv(side, spacing)

\* logic lines 119-120: int(img_width / horizontal_spacing) + 2
NumRepeats(side, spacing) == TruncDiv(side, spacing) + 2

\* logic lines 121-122: (side - (n * spacing - 50)) / 2, carried doubled
RepeatStart2(side, n, spacing) == side - (n * spacing - 50)

\* logic line 158
line_gap == 10

\* logic lines 131-133: the offsets of the outline stamps, in loop order
OutlineOffsets(t) ==
    LET n == 2 * t + 1
        NotCentre(o) == o # <<0, 0>>
    IN  SelectSeq([k \in 1..(n * n) |-> <<((k - 1) \div n) - t, ((k - 1) % n) - t>>],
                  NotCentre)

\* one draw.text call: the instance it belongs to, the position handed to
\* draw.text (doubled), the box of the text, and the fill
Draw(k, x2, y2, box, stamp, colour, alpha) ==
    [instance |-> k, x2 |-> x2, y2 |-> y2, width |-> box[1], height |-> box[2],
     stamp |-> stamp, colour |-> colour, alpha |-> alpha]

\* logic lines 129-138 (165-173, 179-187): the draw.text calls of one
\* instance at (x, y)
InstanceDraws(k, x2, y2, box, outline, t, opacity) ==
    IF outline
    THEN LET offsets == OutlineOffsets(t)
         IN  [j \in 1..Len(offsets) |->
                 Draw(k, x2 + 2 * offsets[j][1], y2 + 2 * offsets[j][2], box,
                      TRUE, "black", opacity)]
             \o <<Draw(k, x2, y2, box, FALSE, "color_rgb", 0)>>
    ELSE <<Draw(k, x2, y2, box, FALSE, "color_rgb", opacity)>>

EngineBaseSizes == { <<1, 1>>, <<30, 40>>, <<40, 30>>, <<100, 7>> }
\* bases of a text job: one whose font size is above the least, and one so
\* high that the outline is thicker than the gap between two lines
EngineTextBaseSizes == EngineBaseSizes \cup { <<155, 300>> }
EngineTallBaseSizes == { <<60, 2400>> }
EngineWatermarkSizes == { <<4, 2>>, <<2, 4>>, <<3, 3>>, <<1, 50>>, <<50, 1>> }
EngineSizePercents == {0, 1, 33, 59, 100}
EngineOpacityPercents == {0, 20, 50, 99, 100}
AlphaLevels == 0..255

\* what textbbox measures for a text: <<width, height>>
TextBoxes == { <<0, 0>>, <<12, 6>>, <<25, 9>> }

\* both text lines given
BothDetails == Details([sender_text |-> <<"A">>, receiver_text |-> <<"B">>])

\* the text jobs of an engine call (logic): the base, the ratios, the fonts
\* that can be loaded, the dict and its two flags.  Plain jobs over every
\* ratio and font; laid out jobs with and without repetition; outlined jobs;
\* and an outlined job of two lines on the tall base
EngineTextJobs ==
    [base : EngineTextBaseSizes, size : EngineSizePercents, opacity : EngineOpacityPercents,
     family_found : BOOLEAN, arial_found : BOOLEAN, details : {SenderDetails},
     outline_enabled : {FALSE}, repetition_enabled : {FALSE}]
    \cup [base : EngineTextBaseSizes, size : {100}, opacity : {50},
          family_found : {TRUE}, arial_found : {TRUE},
          details : {SenderDetails, BothDetails, BlankDetails},
          outline_enabled : {FALSE}, repetition_enabled : BOOLEAN]
    \cup [base : EngineTextBaseSizes, size : {100}, opacity : {50, 100},
          family_found : {TRUE}, arial_found : {TRUE},
          details : {SenderDetails, BothDetails},
          outline_enabled : {TRUE}, repetition_enabled : BOOLEAN]
    \cup [base : EngineTallBaseSizes, size : {100}, opacity : {50},
          family_found : {TRUE}, arial_found : {TRUE}, details : {BothDetails},
          outline_enabled : {TRUE}, repetition_enabled : {FALSE}]

\* an engine call that has opened its input
EngineInit ==
    /\ variant \in Variants
    /\ signal_emitter = (variant = "base")
    /\ folder = "ok"
    /\ listing = <<>>
    /\ folder_now = {}
    /\ same_folder = FALSE
    /\ out_writable = TRUE
    /\ watermark_type \in {"image", "text"}
    /\ watermark_image \in (IF watermark_type = "image"
                            THEN { Asset(wm[1], wm[2]) : wm \in EngineWatermarkSizes }
                            ELSE {NoImage})
    /\ is_running = TRUE
    /\ pc = "none"
    /\ image_files = <<>>
    /\ i = 0
    /\ processed_count = 0
    /\ errors = <<>>
    /\ events = <<>>
    /\ app = NoApp
    /\ IF watermark_type = "image"
       THEN /\ text_details = NoDetails
            /\ size_ratio \in EngineSizePercents
            /\ opacity_ratio \in EngineOpacityPercents
            /\ \E size \in EngineBaseSizes :
               \E build \in (IF variant = "logic" THEN {"round", "truncate"} ELSE {"none"}) :
                  eng = [NoEngine EXCEPT !.pc = "opened", !.float_lut = build,
                                         !.img_width = size[1], !.img_height = size[2]]
       ELSE IF variant = "base"
       THEN /\ text_details = AppDetails
            /\ size_ratio \in EngineSizePercents
            /\ opacity_ratio \in EngineOpacityPercents
            /\ \E size \in EngineBaseSizes :
               \E family, arial \in BOOLEAN :
                  eng = [NoEngine EXCEPT !.pc = "opened",
                                         !.img_width = size[1], !.img_height = size[2],
                                         !.family_found = family, !.arial_found = arial]
       ELSE \E text_job \in EngineTextJobs :
               /\ text_details = text_job.details
               /\ size_ratio = text_job.size
               /\ opacity_ratio = text_job.opacity
               /\ eng = [NoEngine EXCEPT !.pc = "opened",
                                         !.img_width = text_job.base[1],
                                         !.img_height = text_job.base[2],
                                         !.family_found = text_job.family_found,
                                         !.arial_found = text_job.arial_found,
                                         !.outline_enabled = text_job.outline_enabled,
                                         !.repetition_enabled = text_job.repetition_enabled]

job == <<variant, signal_emitter, worker, watermark_image, app>>

\* the size the watermark is resized to
EngineFootprint ==
    /\ eng.pc = "opened"
    /\ watermark_type = "image"
    /\ LET size == IF variant = "logic"
                   THEN LogicFootprint(eng.img_width, eng.img_height,
                                       watermark_image.width, watermark_image.height,
                                       size_ratio)
                   ELSE BaseFootprint(eng.img_width, eng.img_height,
                                      watermark_image.width, watermark_image.height,
                                      size_ratio)
       IN  eng' = [eng EXCEPT !.pc = "sized", !.new_wm_width = size[1],
                              !.new_wm_height = size[2]]
    /\ UNCHANGED job

\* self.watermark_image.resize(...): returns a copy, or raises
EngineResize ==
    /\ eng.pc = "sized"
    /\ eng' = [eng EXCEPT !.pc = IF ResizeOk(eng.new_wm_width, eng.new_wm_height)
                                 THEN "resized" ELSE "raised"]
    /\ UNCHANGED job

\* the alpha band of the copy is mapped through the table and put back
EngineOpacity ==
    /\ eng.pc = "resized"
    /\ eng' = [eng EXCEPT !.pc = "scaled",
                          !.alpha = [x \in AlphaLevels |->
                                        IF variant = "logic"
                                        THEN ScaleAlpha(eng.float_lut, x, opacity_ratio)
                                        ELSE BaseScaleAlpha(x, opacity_ratio)]]
    /\ UNCHANGED job

\* logic: the paste position at the bottom right; Base.py: the tiling steps
\* and the origins of the tiles pasted along each axis
EnginePlace ==
    /\ eng.pc = "scaled"
    /\ IF variant = "logic"
       THEN eng' = [eng EXCEPT !.pc = "placed",
                               !.paste_x = PasteCoord(eng.img_width, eng.new_wm_width),
                               !.paste_y = PasteCoord(eng.img_height, eng.new_wm_height)]
       ELSE LET x_spacing == Spacing(eng.new_wm_width)
                y_spacing == Spacing(eng.new_wm_height)
            IN  eng' = [eng EXCEPT !.pc = "placed",
                                   !.x_spacing = x_spacing,
                                   !.y_spacing = y_spacing,
                                   !.tiles_x = PyRange(0, eng.img_width + x_spacing, x_spacing),
                                   !.tiles_y = PyRange(0, eng.img_height + y_spacing, y_spacing)]
    /\ UNCHANGED job

\* the text path up to the fill colour: the font size, the font and the alpha
\* of the text
EngineTextSetup ==
    /\ eng.pc = "opened"
    /\ watermark_type = "text"
    /\ LET font == FontLookup(eng.family_found, eng.arial_found)
       IN  eng' = [eng EXCEPT !.pc = IF font = "raised" THEN "raised" ELSE "text_ready",
                              !.font = font,
                              !.font_size = IF variant = "logic"
                                            THEN LogicFontSize(eng.img_height, size_ratio)
                                            ELSE BaseFontSize(eng.img_width, eng.img_height,
                                                              size_ratio),
                              !.opacity = TextOpacity(opacity_ratio)]
    /\ UNCHANGED job

\* Base.py lines 135-153: the text is measured and drawn on an image of its
\* own, which is then tiled like an image watermark
EngineTextImage ==
    /\ eng.pc = "text_ready"
    /\ variant = "base"
    /\ \E box \in TextBoxes :
          eng' = [eng EXCEPT !.pc = "scaled", !.boxes = <<box>>,
                             !.new_wm_width = box[1], !.new_wm_height = box[2]]
    /\ UNCHANGED job

\* logic lines 91-163: nothing to draw, or the measures of repeat mode, or
\* those of the one or two centred lines
EngineLayout ==
    /\ eng.pc = "text_ready"
    /\ variant = "logic"
    /\ LET text_lines == TextLines(text_details)
       IN  IF text_lines = <<>>
           THEN eng' = [eng EXCEPT !.pc = "returned"]
           ELSE IF eng.repetition_enabled
           THEN \E box \in TextBoxes :
                   LET horizontal_spacing == box[1] + 50
                       vertical_spacing == box[2] + 50
                       num_repeats_x == NumRepeats(eng.img_width, horizontal_spacing)
                       num_repeats_y == NumRepeats(eng.img_height, vertical_spacing)
                   IN  eng' = [eng EXCEPT
                           !.pc = "laid_out", !.boxes = <<box>>,
                           !.horizontal_spacing = horizontal_spacing,
                           !.vertical_spacing = vertical_spacing,
                           !.num_repeats_x = num_repeats_x,
                           !.num_repeats_y = num_repeats_y,
                           !.start_x2 = RepeatStart2(eng.img_width, num_repeats_x,
                                                     horizontal_spacing),
                           !.start_y2 = RepeatStart2(eng.img_height, num_repeats_y,
                                                     vertical_spacing)]
           ELSE \E box1 \in TextBoxes :
                \E box2 \in (IF Len(text_lines) > 1 THEN TextBoxes ELSE {<<0, 0>>}) :
                   LET total_text_block_height ==
                           IF Len(text_lines) > 1
                           THEN box1[2] + box2[2] + line_gap
                           ELSE box1[2]
                   IN  eng' = [eng EXCEPT
                           !.pc = "laid_out",
                           !.boxes = IF Len(text_lines) > 1 THEN <<box1, box2>> ELSE <<box1>>,
                           !.start_x2 = eng.img_width - Max(box1[1], box2[1]),
                           !.start_y2 = eng.img_height - total_text_block_height]
    /\ UNCHANGED job

\* the number of text instances the laid out call draws
InstanceCount ==
    IF eng.repetition_enabled
    THEN eng.num_repeats_x * eng.num_repeats_y
    ELSE Len(eng.boxes)

\* logic lines 124-138 and 164-191: the next text instance is drawn, with its
\* outline stamps when the outline is enabled
EngineDrawText ==
    /\ eng.pc = "laid_out"
    /\ LET n == eng.drawn
           row == n \div eng.num_repeats_x
           col == n % eng.num_repeats_x
           box == IF eng.repetition_enabled THEN eng.boxes[1] ELSE eng.boxes[n + 1]
           x2 == IF eng.repetition_enabled
                 THEN eng.start_x2 + 2 * col * eng.horizontal_spacing
                 ELSE eng.img_width - box[1]
           y2 == IF eng.repetition_enabled
                 THEN eng.start_y2 + 2 * row * eng.vertical_spacing
                 ELSE IF n = 0 THEN eng.start_y2
                 ELSE eng.start_y2 + 2 * (eng.boxes[1][2] + line_gap)
           thickness == IF eng.outline_enabled THEN OutlineThickness(eng.font_size) ELSE 0
       IN  eng' = [eng EXCEPT
               !.pc = IF n + 1 = InstanceCount THEN "drawn" ELSE "laid_out",
               !.drawn = n + 1,
               !.outline_thickness = thickness,
               !.draws = eng.draws \o InstanceDraws(n + 1, x2, y2, box, eng.outline_enabled,
                                                    thickness, eng.opacity)]
    /\ UNCHANGED job

EngineNext ==
    \/ EngineFootprint
    \/ EngineResize
    \/ EngineOpacity
    \/ EnginePlace
    \/ EngineTextSetup
    \/ EngineTextImage
    \/ EngineLayout
    \/ EngineDrawText

EngineSpec == EngineInit /\ [][EngineNext]_vars

(***************************************************************************)
(* C1: per-file isolation.  In a run that enters the loop with an image or *)
(* text job, a raising engine call never ends the batch: processed_count   *)
(* is the number of engine calls that returned, errors holds one entry per *)
(* raising call, in order, each containing that file's name, total is the  *)
(* number of supported names, and a finished run that was not stopped has  *)
(* called the engine for every file, with processed + len(errors) = total. *)
(***************************************************************************)
C1_PerFileIsolation ==
    (KnownKind /\ image_files # <<>>) =>
        LET ends == Ends
            failed == RaisedFiles(ends)
            finals == Finisheds
        IN  /\ processed_count = Len(ends) - Len(failed)
            /\ Len(errors) = Len(failed)
            /\ \A k \in 1..Len(errors) : Contains(errors[k], failed[k])
            /\ Len(image_files) = Cardinality(SupportedNames)
            /\ pc # "crashed"
            /\ pc = "done" =>
                  /\ \A k \in 1..Len(finals) :
                        /\ finals[k].processed = processed_count
                        /\ finals[k].total = Len(image_files)
                        /\ finals[k].errors = errors
                  /\ is_running =>
                        /\ Len(ends) = Len(image_files)
                        /\ processed_count + Len(errors) = Len(image_files)

\* a finished run in which a file failed and a later file was still processed
C1_Witness ==
    /\ KnownKind
    /\ pc = "done"
    /\ Len(Finisheds) = 1
    /\ Len(Ends) = 2
    /\ Ends[1].outcome.raised
    /\ ~Ends[2].outcome.raised
    /\ Finisheds[1].processed = 1
    /\ Len(Finisheds[1].errors) = 1
    /\ Finisheds[1].total = 2

(***************************************************************************)
(* C2: every run that starts ends having delivered exactly one final       *)
(* result (job_finished), and nothing of the run follows that result.      *)
(***************************************************************************)
C2_ExactlyOneFinalResult ==
    /\ Terminated => Len(Finisheds) = 1
    /\ \A k \in 1..Len(events) : events[k].ev = "finished" => k = Len(events)

(***************************************************************************)
(* C3: one progress notification per file, emitted after that file's       *)
(* engine call is over and before the next file's engine call begins; the  *)
(* k-th notification reads "<k>/<total>: <k-th filename>".                 *)
(***************************************************************************)
ProgressForm(k, total, filename) == Str(k) \o <<"/">> \o Str(total) \o <<":", " ">> \o filename

C3_ProgressAfterEachFile ==
    image_files # <<>> =>
    /\ Len(Progresses) <= Len(Ends)
    /\ Len(Calls) <= Len(Progresses) + 1
    /\ pc \in {"loop", "final", "done"} => Len(Progresses) = Len(Ends)
    /\ \A k \in 1..Len(Progresses) :
          Contains(Progresses[k].text, ProgressForm(k, Len(image_files), image_files[k]))

(***************************************************************************)
(* C4: when the input directory is missing or cannot be listed, the run    *)
(* makes no engine call, emits no progress notification, and ends with the *)
(* result (0, 0, one error).                                               *)
(***************************************************************************)
C4_BadDirectoryResult ==
    (folder # "ok" /\ pc # "start") =>
        /\ pc = "done"
        /\ Calls = <<>>
        /\ Progresses = <<>>
        /\ Len(Finisheds) = 1
        /\ Finisheds[1].processed = 0
        /\ Finisheds[1].total = 0
        /\ Len(Finisheds[1].errors) = 1

(***************************************************************************)
(* C5: when the directory holds no supported name, the run makes no engine *)
(* call and ends with the result (0, 0, one informational error saying no  *)
(* supported files were found).                                            *)
(***************************************************************************)
C5_NoFilesResult ==
    (folder = "ok" /\ SupportedNames = {} /\ pc # "start") =>
        /\ pc = "done"
        /\ Calls = <<>>
        /\ Len(Finisheds) = 1
        /\ Finisheds[1].processed = 0
        /\ Finisheds[1].total = 0
        /\ Finisheds[1].errors = <<NoFilesText>>

(***************************************************************************)
(* C6: the names passed to the engine are exactly the listed files (not    *)
(* subdirectories) with a supported extension, compared without case, and  *)
(* total is the number of those files.                                     *)
(***************************************************************************)
SupportedFiles == { n \in SupportedNames : ~EntryOf(n).isDir }

C6_OnlySupportedFiles ==
    /\ \A k \in 1..Len(Calls) : Calls[k].file \in SupportedFiles
    /\ pc \in {"loop", "apply", "final", "done"} => Len(image_files) = Cardinality(SupportedFiles)
    /\ (pc = "done" /\ is_running /\ KnownKind) =>
          { Calls[k].file : k \in 1..Len(Calls) } = SupportedFiles

(***************************************************************************)
(* C7: at the end of a run processed equals the number of output files     *)
(* written: every file counted as processed had exactly one output written *)
(* under its own name, for any watermark kind and any text details.        *)
(***************************************************************************)
C7_ProcessedMeansWritten ==
    pc = "done" =>
        /\ processed_count = Len(Writes)
        /\ \A j, k \in 1..Len(Writes) : Writes[j].file = Writes[k].file => j = k
        /\ \A k \in 1..Len(Writes) : Writes[k].file \in Range(image_files)

(***************************************************************************)
(* C8: the file list is fixed by the scan; the engine is handed the files  *)
(* of that list in list order, each at most once and never again after a   *)
(* failure, every one of them when an image or text run finishes without   *)
(* being stopped; a name that appears in the input folder later, or an     *)
(* output written into it, is not processed in the run.                    *)
(***************************************************************************)
C8_CallsFollowList ==
    LET calls == Calls
    IN  /\ pc # "start" => image_files = FilterSupported(listing)
        /\ Len(calls) <= Len(image_files)
        /\ \A k \in 1..Len(calls) : calls[k].file = image_files[k]
        /\ \A k \in 1..Len(calls) : calls[k].file \notin (folder_now \ Range(listing))
        /\ (pc = "done" /\ is_running /\ KnownKind) => Len(calls) = Len(image_files)

C8_FileListFixed ==
    /\ []C8_CallsFollowList
    /\ [][pc # "start" => image_files' = image_files]_vars

\* a finished run whose first file failed, whose second file was written into
\* the input folder, and during which another supported file appeared there
C8_Witness ==
    /\ pc = "done"
    /\ same_folder
    /\ Len(Ends) = 2
    /\ Ends[1].outcome.raised
    /\ Ends[2].outcome.wrote
    /\ \E e \in LateFiles : e.name \in folder_now /\ IsSupported(e.name)

(***************************************************************************)
(* C9: cancellation (base).  The stop flag is looked at only at the head   *)
(* of an iteration: a file whose iteration has begun is completed, no      *)
(* engine call begins once the flag is set at a loop head, and the run     *)
(* still ends with exactly one final result, which covers the files        *)
(* handled before the loop was left: processed + len(errors) <= total.     *)
(***************************************************************************)
C9_ResultAfterStop ==
    variant = "base" =>
        /\ pc = "final" => ~is_running
        /\ (pc = "done" /\ image_files # <<>>) =>
              LET finals == Finisheds
                  ends == Ends
              IN  /\ Len(finals) = 1
                  /\ events[Len(events)].ev = "finished"
                  /\ finals[1].processed = processed_count
                  /\ finals[1].total = Len(image_files)
                  /\ finals[1].errors = errors
                  /\ finals[1].processed + Len(finals[1].errors) = Len(ends)
                  /\ Len(ends) <= Len(image_files)
                  /\ finals[1].processed + Len(finals[1].errors) <= finals[1].total

C9_StopBetweenFiles ==
    variant = "base" =>
        /\ pc = "apply" => pc' \in {"apply", "loop"}
        /\ (pc = "apply" /\ pc' = "loop") => Len(Ends') = Len(Ends) + 1
        /\ (~is_running /\ pc # "apply") => (Calls' = Calls /\ pc' # "apply")

C9_Cancellation ==
    /\ []C9_ResultAfterStop
    /\ [][C9_StopBetweenFiles]_vars

\* a stopped run: one of two files was handled, then the flag ended the loop
C9_Witness ==
    /\ variant = "base"
    /\ pc = "done"
    /\ ~is_running
    /\ Len(image_files) = 2
    /\ Len(Ends) = 1
    /\ Len(Finisheds) = 1
    /\ Finisheds[1].processed + Len(Finisheds[1].errors) = 1

(***************************************************************************)
(* C10: an engine call with a size ratio or an opacity ratio outside [0,1] *)
(* is rejected with a parameter error (ValueError) before the input image  *)
(* is opened and without an output being written, for both kinds.          *)
(***************************************************************************)
C10_RejectsOutOfRange ==
    (~(0 <= size_ratio /\ size_ratio <= 100) \/ ~(0 <= opacity_ratio /\ opacity_ratio <= 100)) =>
        \A k \in 1..Len(events) :
            events[k].ev = "end" =>
                /\ events[k].outcome.raised
                /\ events[k].outcome.exc = "ValueError"
                /\ ~events[k].outcome.opened
                /\ ~events[k].outcome.wrote

(***************************************************************************)
(* C11: an image job run while no watermark asset is loaded fails, for     *)
(* every file and whatever the state of the input file, with the           *)
(* asset-not-loaded error, a ValueError that can be told from a decode or  *)
(* a write error; no output is written, every file is a per-file error and *)
(* processed stays 0.                                                      *)
(***************************************************************************)
C11_AssetNotLoaded ==
    (watermark_type = "image" /\ ~watermark_image.loaded /\ image_files # <<>>) =>
        /\ \A k \in 1..Len(Ends) :
              /\ Ends[k].outcome.raised
              /\ Ends[k].outcome.exc = "ValueError"
              /\ ~Ends[k].outcome.wrote
        /\ Writes = <<>>
        /\ processed_count = 0
        /\ Len(errors) = Len(Ends)

(***************************************************************************)
(* The text lines a variant's engine reads are all blank (empty or white   *)
(* space only): sender_text and receiver_text in logic, text in Base.py.   *)
(***************************************************************************)
BlankTextJob ==
    /\ watermark_type = "text"
    /\ ~text_details.none
    /\ IF variant = "logic"
       THEN /\ DOMAIN text_details.items = {"sender_text", "receiver_text"}
            /\ Strip(Get(text_details, "sender_text")) = <<>>
            /\ Strip(Get(text_details, "receiver_text")) = <<>>
       ELSE /\ "text" \in DOMAIN text_details.items
            /\ Strip(Get(text_details, "text")) = <<>>

(***************************************************************************)
(* C12: a text apply whose lines are all blank is a pass-through: for an   *)
(* input that can be decoded and an output folder that can be written, the *)
(* call returns having written the output file.                            *)
(***************************************************************************)
C12_BlankTextPassThrough ==
    (BlankTextJob /\ out_writable) =>
        \A k \in 1..Len(Ends) :
            EntryOf(Ends[k].file).decodable =>
                /\ ~Ends[k].outcome.raised
                /\ Ends[k].outcome.wrote

(***************************************************************************)
(* C13: a text apply whose lines are all blank fails with a parameter      *)
(* error, so in a batch run every file is a per-file error and no file is  *)
(* counted as processed.                                                   *)
(***************************************************************************)
C13_BlankTextRejected ==
    (BlankTextJob /\ image_files # <<>>) =>
        /\ \A k \in 1..Len(Ends) :
              /\ Ends[k].outcome.raised
              /\ ~Ends[k].outcome.wrote
        /\ processed_count = 0
        /\ Len(errors) = Len(Ends)

(***************************************************************************)
(* C14: after any sequence of load_watermark_image calls the asset is the  *)
(* RGBA image of the path of the most recent call that succeeded (absent   *)
(* when none did); a call fails exactly when its path is missing or cannot *)
(* be decoded, it raises to its caller, and it leaves the asset as it was; *)
(* the asset is always absent or 4-channel.                                *)
(***************************************************************************)
RECURSIVE LastLoadedPath(_)
LastLoadedPath(loads) ==
    IF loads = <<>> THEN <<>>
    ELSE IF loads[Len(loads)].exc = "none" THEN loads[Len(loads)].path
    ELSE LastLoadedPath(SubSeq(loads, 1, Len(loads) - 1))

C14_AssetIsLastLoaded ==
    LET path == LastLoadedPath(app.loads)
    IN  /\ IF path = <<>>
           THEN ~watermark_image.loaded
           ELSE /\ watermark_image.loaded
                /\ watermark_image.width = WatermarkAt(path).width
                /\ watermark_image.height = WatermarkAt(path).height
        /\ watermark_image.loaded => watermark_image.mode = "RGBA"
        /\ \A k \in 1..Len(app.loads) :
              (app.loads[k].exc = "none") <=>
                  \E e \in WatermarkPool : e.name = app.loads[k].path /\ e.decodable

C14_FailedLoadKeepsAsset ==
    (Len(app.loads') = Len(app.loads) + 1 /\ app.loads'[Len(app.loads')].exc # "none") =>
        watermark_image' = watermark_image

C14_LastLoadWins ==
    /\ []C14_AssetIsLastLoaded
    /\ [][C14_FailedLoadKeepsAsset]_vars

\* an opaque RGB file was loaded, then a load failed: the first asset is kept
C14_Witness ==
    /\ Len(app.loads) = 2
    /\ app.loads[1].exc = "none"
    /\ WatermarkAt(app.loads[1].path).mode = "RGB"
    /\ app.loads[2].exc # "none"
    /\ watermark_image.loaded
    /\ watermark_image.mode = "RGBA"

(***************************************************************************)
(* C15: while a run is in flight (from the start of the worker's thread    *)
(* until _job_done received its result) the watermark asset of an image    *)
(* job is not written: no engine call changes it and the window cannot     *)
(* load another, so every file of the run gets the same asset.             *)
(***************************************************************************)
C15_AssetFixedDuringRun ==
    [][(app.pc = "running" /\ watermark_type = "image") =>
            watermark_image' = watermark_image]_vars

Sized == watermark_type = "image" /\ eng.pc \in {"sized", "resized", "raised", "scaled", "placed"}

(***************************************************************************)
(* C17: for a base of W x H, a watermark of native w x h (all >= 1) and a  *)
(* size ratio r in (0,1], the footprint's longer side is round(min(W,H)*r) *)
(* and its shorter side is the floor of the native shorter side scaled in  *)
(* the same proportion.                                                    *)
(***************************************************************************)
C17_FootprintSides ==
    (Sized /\ 0 < size_ratio /\ size_ratio <= 100) =>
        LET target == Round(Min(eng.img_width, eng.img_height) * size_ratio, 100)
            w == watermark_image.width
            h == watermark_image.height
        IN  IF w >= h
            THEN /\ eng.new_wm_width = target
                 /\ eng.new_wm_height = (h * target) \div w
            ELSE /\ eng.new_wm_height = target
                 /\ eng.new_wm_width = (w * target) \div h

(***************************************************************************)
(* C18: for every base size, watermark size and size ratio r in [0,1],     *)
(* r = 0 and extreme aspect ratios included, both sides of the size passed *)
(* to resize are at least 1.                                               *)
(***************************************************************************)
C18_FootprintAtLeastOne ==
    (Sized /\ 0 <= size_ratio /\ size_ratio <= 100) =>
        /\ eng.new_wm_width >= 1
        /\ eng.new_wm_height >= 1

(***************************************************************************)
(* C19: apply_watermark_image (logic) pastes the watermark at              *)
(* (max(0, W - fw - 20), max(0, H - fh - 20)) for every base size, native  *)
(* watermark size and r in [0,1], and the pasted rectangle lies inside the *)
(* base image: 0 <= px, px + fw <= W, 0 <= py, py + fh <= H.               *)
(***************************************************************************)
C19_PasteInsideBase ==
    (variant = "logic" /\ watermark_type = "image" /\ eng.pc = "placed") =>
        /\ eng.paste_x = Max(0, eng.img_width - eng.new_wm_width - 20)
        /\ eng.paste_y = Max(0, eng.img_height - eng.new_wm_height - 20)
        /\ 0 <= eng.paste_x
        /\ eng.paste_x + eng.new_wm_width <= eng.img_width
        /\ 0 <= eng.paste_y
        /\ eng.paste_y + eng.new_wm_height <= eng.img_height

\* a watermark as wide as a base narrower than the padding allows: the
\* position is held at the left edge while the other axis keeps its padding
C19_Witness ==
    /\ variant = "logic"
    /\ eng.pc = "placed"
    /\ eng.img_width - eng.new_wm_width - 20 < 0
    /\ eng.paste_x = 0
    /\ eng.paste_y = eng.img_height - eng.new_wm_height - 20
    /\ eng.paste_y > 0

(***************************************************************************)
(* C20: opacity scaling of alpha is monotone.  For every alpha a in 0..255 *)
(* and opacities p <= q in [0,1] the alpha scaled by p is at most the      *)
(* alpha scaled by q; the scaled alpha never exceeds a, a = 0 stays 0 and  *)
(* opacity 1 leaves a unchanged.  The same holds for the alpha the text    *)
(* fill gets from a = 255.                                                 *)
(***************************************************************************)
\* the alpha the engine of this call gives a pixel of alpha a at opacity q
ScaledAt(a, q) ==
    IF watermark_type = "text" THEN TextOpacity(q)
    ELSE IF variant = "logic" THEN ScaleAlpha(eng.float_lut, a, q)
    ELSE BaseScaleAlpha(a, q)

C20_OpacityMonotone ==
    /\ (watermark_type = "image" /\ eng.pc \in {"scaled", "placed"}) =>
          \A a \in AlphaLevels :
              /\ 0 <= eng.alpha[a]
              /\ eng.alpha[a] <= a
              /\ a = 0 => eng.alpha[a] = 0
              /\ opacity_ratio = 100 => eng.alpha[a] = a
              /\ \A q \in EngineOpacityPercents :
                    /\ q <= opacity_ratio => ScaledAt(a, q) <= eng.alpha[a]
                    /\ q >= opacity_ratio => eng.alpha[a] <= ScaledAt(a, q)
    /\ (watermark_type = "text" /\ eng.pc = "text_ready") =>
          /\ 0 <= eng.opacity
          /\ eng.opacity <= 255
          /\ opacity_ratio = 100 => eng.opacity = 255
          /\ \A q \in EngineOpacityPercents :
                /\ q <= opacity_ratio => ScaledAt(255, q) <= eng.opacity
                /\ q >= opacity_ratio => eng.opacity <= ScaledAt(255, q)

\* a table built by rounding at half opacity: alpha 3 became 2 and alpha 1
\* became 0, and both are below what full opacity gives
C20_Witness ==
    /\ variant = "logic"
    /\ eng.pc = "scaled"
    /\ eng.float_lut = "round"
    /\ opacity_ratio = 50
    /\ eng.alpha[3] = 2
    /\ eng.alpha[1] = 0
    /\ eng.alpha[255] = 128

(***************************************************************************)
(* An image job with a loaded asset, or a text job whose details have the  *)
(* keys the variant's engine reads and a text that is not blank, with both *)
(* ratios in [0,1] and a size above 0.                                     *)
(***************************************************************************)
ValidJob ==
    /\ RatioOk(size_ratio) /\ RatioOk(opacity_ratio) /\ size_ratio > 0
    /\ \/ watermark_type = "image" /\ watermark_image.loaded
       \/ /\ watermark_type = "text"
          /\ text_details = (IF variant = "logic" THEN SenderDetails ELSE AppDetails)

(***************************************************************************)
(* C21: for an input whose mode has no alpha (L or RGB) the image handed   *)
(* to Image.save has the input's mode, for image and text jobs, so such an *)
(* input is written and counted as processed whatever the container of the *)
(* output name (.jpg included) when the job is valid and the output folder *)
(* can be written.                                                         *)
(***************************************************************************)
C21_OpaqueInputKeepsMode ==
    (ValidJob /\ out_writable) =>
        \A k \in 1..Len(Ends) :
            LET f == EntryOf(Ends[k].file)
            IN  (f.decodable /\ f.mode \in {"L", "RGB"}) =>
                    /\ OutputMode(variant, f.mode) = f.mode
                    /\ ~Ends[k].outcome.raised
                    /\ Ends[k].outcome.wrote

(***************************************************************************)
(* C22: font lookup never makes a text apply fail.  Whatever fonts can be  *)
(* loaded, the call gets past the lookup with a font: the requested family *)
(* when it loads, else arial.ttf when that loads, else the built-in font.  *)
(***************************************************************************)
C22_FontLookupNeverFails ==
    (watermark_type = "text" /\ eng.pc \notin {"none", "opened"}) =>
        /\ eng.pc # "raised"
        /\ eng.font \in {"requested", "arial", "default"}
        /\ eng.font = "requested" <=> eng.family_found
        /\ eng.font = "arial" <=> (~eng.family_found /\ eng.arial_found)
        /\ eng.font = "default" <=> (~eng.family_found /\ ~eng.arial_found)

\* neither family loads and the text is laid out with the built-in font
C22_Witness ==
    /\ watermark_type = "text"
    /\ ~eng.family_found
    /\ ~eng.arial_found
    /\ eng.font = "default"
    /\ eng.pc \in {"laid_out", "scaled"}

\* the draws at the true positions of the text instances, in drawing order
IsInstance(d) == ~d.stamp
Instances == SelectSeq(eng.draws, IsInstance)

(***************************************************************************)
(* C23: in repeat mode, for a canvas W x H and a unit box (tw, th) >= 0    *)
(* with spacing (sx, sy) = (tw + 50, th + 50), exactly                     *)
(* (floor(W/sx) + 2) x (floor(H/sy) + 2) instances are placed, row by row; *)
(* origins next to each other differ by sx in a row and by sy between      *)
(* rows, and the grid covers more than the canvas: the first origin is     *)
(* <= 0 and the last origin plus the unit box is >= W (H) on each axis.    *)
(* Positions are doubled.                                                  *)
(***************************************************************************)
C23_RepeatGrid ==
    (eng.repetition_enabled /\ eng.pc \in {"laid_out", "drawn"}) =>
        LET W == eng.img_width
            H == eng.img_height
            tw == eng.boxes[1][1]
            th == eng.boxes[1][2]
            sx == tw + 50
            sy == th + 50
            nx == (W \div sx) + 2
            ny == (H \div sy) + 2
        IN  /\ eng.num_repeats_x = nx
            /\ eng.num_repeats_y = ny
            /\ Len(Instances) = eng.drawn
            /\ eng.drawn <= nx * ny
            /\ eng.pc = "drawn" <=> eng.drawn = nx * ny
            /\ \A k \in 1..Len(Instances) :
                  LET row == (k - 1) \div nx
                      col == (k - 1) % nx
                  IN  /\ col > 0 => /\ Instances[k].x2 - Instances[k - 1].x2 = 2 * sx
                                    /\ Instances[k].y2 = Instances[k - 1].y2
                      /\ row > 0 => /\ Instances[k].y2 - Instances[k - nx].y2 = 2 * sy
                                    /\ Instances[k].x2 = Instances[k - nx].x2
            /\ eng.pc = "drawn" =>
                  /\ Instances[1].x2 <= 0
                  /\ Instances[1].y2 <= 0
                  /\ Instances[nx * ny].x2 + 2 * tw >= 2 * W
                  /\ Instances[nx * ny].y2 + 2 * th >= 2 * H

\* a 155 x 300 canvas tiled with a 25 x 9 box: 4 x 7 instances, from
\* (-47.5, -31.5) in steps of (75, 59)
C23_Witness ==
    /\ eng.repetition_enabled
    /\ eng.pc = "drawn"
    /\ eng.img_width = 155
    /\ eng.boxes = << <<25, 9>> >>
    /\ Len(Instances) = 28
    /\ Instances[1].x2 = -95
    /\ Instances[1].y2 = -63
    /\ Instances[28].x2 = 355

\* the tile origins along one axis are the multiples of the step below
\* side + step, in order, and every pixel has one at or before it less than
\* a step away
TilesCover(tiles, side, step) ==
    /\ step > 0
    /\ \A k \in 1..Len(tiles) : tiles[k] = (k - 1) * step
    /\ Range(tiles) = { o \in 0..(side + step) : o % step = 0 /\ o < side + step }
    /\ \A x \in 0..(side - 1) : \E k \in 1..Len(tiles) : tiles[k] <= x /\ x - tiles[k] < step

(***************************************************************************)
(* C24: in the tiled placement of Base.py, for every footprint width and   *)
(* height >= 0 both steps are above 0 (the footprint * 1.2 truncated, or   *)
(* the footprint + 10 when that is 0), so the loops end, and a tile is     *)
(* pasted at exactly the origins (i * sx, j * sy) with 0 <= i * sx < W + sx*)
(* and 0 <= j * sy < H + sy: no pixel of the base is a step or more to the *)
(* right of or below the nearest tile origin before it.                    *)
(***************************************************************************)
C24_TilingSteps ==
    (variant = "base" /\ eng.pc = "placed") =>
        /\ eng.new_wm_width >= 0
        /\ eng.new_wm_height >= 0
        /\ eng.x_spacing = (IF (eng.new_wm_width * 12) \div 10 = 0
                            THEN eng.new_wm_width + 10
                            ELSE (eng.new_wm_width * 12) \div 10)
        /\ eng.y_spacing = (IF (eng.new_wm_height * 12) \div 10 = 0
                            THEN eng.new_wm_height + 10
                            ELSE (eng.new_wm_height * 12) \div 10)
        /\ TilesCover(eng.tiles_x, eng.img_width, eng.x_spacing)
        /\ TilesCover(eng.tiles_y, eng.img_height, eng.y_spacing)

\* a text image of no width and no height over a 30 x 40 base: steps of 10
C24_Witness ==
    /\ variant = "base"
    /\ eng.pc = "placed"
    /\ eng.new_wm_width = 0
    /\ eng.x_spacing = 10
    /\ eng.img_width = 30
    /\ eng.tiles_x = <<0, 10, 20, 30>>
    /\ eng.tiles_y = <<0, 10, 20, 30, 40>>

(***************************************************************************)
(* C25: for every image height H >= 1 and size ratio r in [0,1] the text   *)
(* pixel size of apply_watermark_text is max(10, round(H * r * 0.1)), and  *)
(* the outline radius is max(1, round(pixel size * 0.05)).                 *)
(***************************************************************************)
C25_RoundedTextSize ==
    (variant = "logic" /\ watermark_type = "text" /\ eng.img_height >= 1
     /\ eng.pc \in {"text_ready", "returned", "laid_out", "drawn"}) =>
        /\ eng.font_size = Max(10, Round(eng.img_height * size_ratio, 1000))
        /\ eng.font_size >= 10
        /\ (eng.outline_enabled /\ eng.drawn > 0) =>
              /\ eng.outline_thickness = Max(1, Round(eng.font_size * 5, 100))
              /\ eng.outline_thickness >= 1

(***************************************************************************)
(* The pixels of the text layer.  A draw.text call at (x, y) for a text    *)
(* whose box is w x h is taken to set the pixels of the box at (int(x),    *)
(* int(y)) to its fill, alpha included (the fill is pasted through the     *)
(* glyph mask, it is not composited), so a pixel ends with the fill of the *)
(* last draw whose box holds it, and with alpha 0 when no draw does.       *)
(***************************************************************************)
PixelX(d) == TruncDiv(d.x2, 2)
PixelY(d) == TruncDiv(d.y2, 2)

Covers(d, x, y) ==
    /\ PixelX(d) <= x /\ x < PixelX(d) + d.width
    /\ PixelY(d) <= y /\ y < PixelY(d) + d.height

\* the last of the draws lo..hi whose box holds the pixel, 0 when none does
RECURSIVE LastCovering(_, _, _, _)
LastCovering(lo, hi, x, y) ==
    IF lo > hi THEN 0
    ELSE IF lo = hi THEN (IF Covers(eng.draws[lo], x, y) THEN lo ELSE 0)
    ELSE LET mid == (lo + hi) \div 2
             later == LastCovering(mid + 1, hi, x, y)
         IN  IF later # 0 THEN later ELSE LastCovering(lo, mid, x, y)

LayerPixel(x, y) ==
    LET j == LastCovering(1, Len(eng.draws), x, y)
    IN  IF j = 0
        THEN [colour |-> "none", alpha |-> 0]
        ELSE [colour |-> eng.draws[j].colour, alpha |-> eng.draws[j].alpha]

\* the pixels of the canvas in the first column and in the first row of the
\* box of d, as far as thickness t beyond the box
CrossPixels(d, t) ==
    { q \in ({PixelX(d)} \X ((PixelY(d) - t)..(PixelY(d) + d.height + t - 1)))
            \cup (((PixelX(d) - t)..(PixelX(d) + d.width + t - 1)) \X {PixelY(d)}) :
        /\ 0 <= q[1] /\ q[1] < eng.img_width
        /\ 0 <= q[2] /\ q[2] < eng.img_height }

(***************************************************************************)
(* C26: with the outline enabled each text instance, in single and in      *)
(* repeat mode, is drawn as one stamp for every offset (dx, dy) of         *)
(* [-t, t] x [-t, t] but (0, 0), in the outline colour with alpha          *)
(* int(255 * opacity), and after all its stamps as one draw at its true    *)
(* position with alpha 0; in the finished layer the pixels inside an       *)
(* instance's text have alpha 0 and the pixels its stamps reach around it  *)
(* have the outline colour at that alpha (looked at along the first column *)
(* and the first row of every instance's box).                             *)
(***************************************************************************)
C26_OutlineStamps ==
    (variant = "logic" /\ eng.outline_enabled /\ eng.drawn > 0) =>
        LET t == eng.outline_thickness
            per == (2 * t + 1) * (2 * t + 1)
            alpha == (255 * opacity_ratio) \div 100
            Offsets == { <<2 * dx, 2 * dy>> : dx \in (-t)..t, dy \in (-t)..t } \ { <<0, 0>> }
        IN  /\ Len(eng.draws) = eng.drawn * per
            /\ \A k \in 1..eng.drawn :
                  LET true == eng.draws[k * per]
                      stamps == ((k - 1) * per + 1)..(k * per - 1)
                  IN  /\ true.instance = k
                      /\ ~true.stamp
                      /\ true.alpha = 0
                      /\ \A j \in stamps :
                            /\ eng.draws[j].instance = k
                            /\ eng.draws[j].stamp
                            /\ eng.draws[j].colour = "black"
                            /\ eng.draws[j].alpha = alpha
                      /\ { <<eng.draws[j].x2 - true.x2, eng.draws[j].y2 - true.y2>> :
                               j \in stamps } = Offsets
                      /\ eng.pc = "drawn" =>
                            \A q \in CrossPixels(true, t) :
                                IF Covers(true, q[1], q[2])
                                THEN LayerPixel(q[1], q[2]).alpha = 0
                                ELSE (\E j \in stamps : Covers(eng.draws[j], q[1], q[2])) =>
                                         /\ LayerPixel(q[1], q[2]).alpha = alpha
                                         /\ LayerPixel(q[1], q[2]).colour = "black"

(***************************************************************************)
(* C27: the settings survive a restart.  The configuration file a process  *)
(* finds is still as it was found when _load_last_settings reads it, and   *)
(* when __init__ has completed the window's settings are those the file    *)
(* of the session before held.                                             *)
(***************************************************************************)
C27_SettingsSurviveRestart ==
    /\ (app.pc = "widgets" /\ app.found # <<>>) => app.config = app.found
    /\ (app.pc = "loaded" /\ app.found = SessionFile) => SavedConfig(app) = SessionFile

(***************************************************************************)
(* C28: the Start button does not stay disabled.  While it is disabled     *)
(* after a start, a worker thread is on its way to the final result that   *)
(* _job_done receives.                                                     *)
(***************************************************************************)
C28_DisabledButtonHasRun ==
    (app.pc \in {"running", "aborted"} /\ ~app.start_enabled) =>
        /\ app.pc = "running"
        /\ pc \in {"start", "loop", "apply", "final", "done"}

(***************************************************************************)
(* C29: at most one run is in flight.  From the start of a worker thread   *)
(* until _job_done received its result the Start button is disabled, and   *)
(* no second thread has been started.                                      *)
(***************************************************************************)
C29_OneRunInFlight ==
    /\ app.in_flight <= 1
    /\ app.in_flight = 1 => ~app.start_enabled
    /\ pc \in {"start", "loop", "apply", "final", "done"} => app.in_flight = 1 \/ app.pc = "idle"

\* a worker thread is in an engine call, and the button is disabled
C29_Witness ==
    /\ app.in_flight = 1
    /\ app.pc = "running"
    /\ pc = "apply"
    /\ Len(Calls) = 1
    /\ ~app.start_enabled

(***************************************************************************)
(* C30: a run leaves the files of the input folder alone: the window       *)
(* starts no run whose output folder is the input folder, so no output is  *)
(* written over an input.                                                  *)
(***************************************************************************)
C30_InputsUntouched ==
    /\ pc # "none" => ~same_folder
    /\ same_folder => Writes = <<>>

====
